---- MODULE Spec2Model ----
(***************************************************************************)
(* Model of the monitoring engine of ping-monitor (src/src/monitor.rs) and *)
(* of the thread that drives it (src/src/main.rs, src/src/ui.rs).          *)
(*                                                                         *)
(* systems is a DashMap: a fixed array of shards, each behind its own      *)
(* read-write lock; a key lives in the shard its hash selects.  get_mut    *)
(* returns a RefMut that holds the WRITE lock of the key's shard until it  *)
(* is dropped; insert and remove take the same write lock for the duration *)
(* of the call; iter and get take the shard's read lock.  A supervisor     *)
(* task keeps its RefMut across the probe await (monitor.rs:117-125).      *)
(*                                                                         *)
(* Supervisor tasks run on the worker threads of the tokio runtime: a task *)
(* occupies a worker from the moment it is polled until it reaches a       *)
(* pending await (the probe or the sleep); a task blocked on a shard lock  *)
(* keeps its worker.  MonitorManager::add_system and remove_system take    *)
(* &mut self and get_systems / get_system take &self behind one            *)
(* RwLock<MonitorManager>, and every call site is the main/UI thread, so   *)
(* the registry operations are issued by one caller, one at a time.        *)
(*                                                                         *)
(* Spec is the engine under any sequence of registry calls, SpecStatus one *)
(* record under any sequence of update_status calls, and SpecMain the      *)
(* program: main loads the Config, adds its targets, then the GUI thread   *)
(* refreshes, adds and removes.                                            *)
(*                                                                         *)
(* Abstractions: Utc::now() is the ordinal of the check that reads it;     *)
(* a Uuid is a small integer; host, port and protocol only select the      *)
(* probe, whose outcome is an input, so a target is [name, enabled].       *)
(***************************************************************************)
EXTENDS Integers, Sequences, FiniteSets, TLC

\* ---------------------------------------------------------------- bounds
MaxIds    == 2      \* Uuids the generator hands out in one run
NShards   == 2      \* shards of the systems DashMap
NWorkers  == 1      \* worker threads of the tokio runtime
MaxProbes == 2      \* probes started in one run, over all supervisors
MaxChecks == 5      \* update_status calls on the record of SpecStatus
MaxConfigured == 1  \* targets listed in a configuration file that is read

Ids    == 1..MaxIds
NoId   == 0                    \* a Uuid that Uuid::new_v4 never returns
Shards == 1..NShards

\* inputs
Targets    == [name : {"gw"}, enabled : BOOLEAN]
ElapsedMs  == {12}
ErrorTexts == {"timed out"}

None    == <<>>
Some(x) == <<x>>

\* (mutant) the error text is dropped
ProbeErrNoText(e) == [is_online |-> FALSE, response_time |-> None, error |-> None]

\* check_system_status (monitor.rs:150-153): what a probe result becomes
ProbeOk(ms)  == [is_online |-> TRUE,  response_time |-> Some(ms), error |-> None]
ProbeErr(e)  == [is_online |-> FALSE, response_time |-> None,     error |-> Some(e)]
ProbeResults == {ProbeOk(ms) : ms \in ElapsedMs} \cup {ProbeErr(e) : e \in ErrorTexts}
NoResult     == [is_online |-> FALSE, response_time |-> None, error |-> None]

\* ------------------------------------------------- f64 arithmetic (binary64)
\* A positive f64 is [exp, man]: man is the 53-bit significand, most
\* significant bit first (man[1] = 1), and the value is 0.man * 2^exp.
\* Operations round to nearest, ties to even, as the hardware does.  The
\* operands here are small naturals, so every intermediate value fits the
\* 32-bit integers of the checker.
Precision == 53
LimbBits  == 13
LimbBase  == 8192
F64Zero   == [exp |-> 0, man |-> <<>>]

Zeros(n) == [i \in 1..n |-> 0]
Ones(n)  == [i \in 1..n |-> 1]

\* the low w bits of n, most significant first
FixedBits(n, w) == [j \in 1..w |-> (n \div (2 ^ (w - j))) % 2]

Strip(b) ==
  IF \A i \in 1..Len(b) : b[i] = 0 THEN <<>>
  ELSE LET f == CHOOSE i \in 1..Len(b) : b[i] = 1 /\ \A j \in 1..(i - 1) : b[j] = 0
       IN  SubSeq(b, f, Len(b))

NatBits(n) == Strip(FixedBits(n, 2 * LimbBits))

RECURSIVE BitsVal(_)
BitsVal(b) == IF b = <<>> THEN 0 ELSE 2 * BitsVal(SubSeq(b, 1, Len(b) - 1)) + b[Len(b)]

\* b + 1 for a bit string that is not all ones
Inc(b) ==
  LET last == CHOOSE i \in 1..Len(b) : b[i] = 0 /\ \A j \in (i + 1)..Len(b) : b[j] = 1
  IN  [i \in 1..Len(b) |-> IF i < last THEN b[i] ELSE IF i = last THEN 1 ELSE 0]

\* m * c for a bit string m of at most 65 bits and 0 < c < LimbBase
MulBits(m, c) ==
  LET p   == Zeros(5 * LimbBits - Len(m)) \o m
      L(k) == BitsVal(SubSeq(p, (k - 1) * LimbBits + 1, k * LimbBits))
      t5  == L(5) * c
      t4  == L(4) * c + t5 \div LimbBase
      t3  == L(3) * c + t4 \div LimbBase
      t2  == L(2) * c + t3 \div LimbBase
      t1  == L(1) * c + t2 \div LimbBase
  IN  Strip(FixedBits(t1 \div LimbBase, LimbBits) \o FixedBits(t1 % LimbBase, LimbBits)
            \o FixedBits(t2 % LimbBase, LimbBits) \o FixedBits(t3 % LimbBase, LimbBits)
            \o FixedBits(t4 % LimbBase, LimbBits) \o FixedBits(t5 % LimbBase, LimbBits))

Less(a, b) ==
  IF Len(a) # Len(b) THEN Len(a) < Len(b)
  ELSE \E i \in 1..Len(a) : a[i] < b[i] /\ \A j \in 1..(i - 1) : a[j] = b[j]

Round(b, sticky, e) ==
  IF Len(b) <= Precision
  THEN [exp |-> e, man |-> b \o Zeros(Precision - Len(b))]
  ELSE LET keep == SubSeq(b, 1, Precision)
           s    == sticky \/ \E i \in (Precision + 2)..Len(b) : b[i] = 1
           up   == b[Precision + 1] = 1 /\ (s \/ keep[Precision] = 1)
       IN  IF ~up THEN [exp |-> e, man |-> keep]
           ELSE IF keep = Ones(Precision)
                THEN [exp |-> e + 1, man |-> <<1>> \o Zeros(Precision - 1)]
                ELSE [exp |-> e, man |-> Inc(keep)]

RECURSIVE ScaleUp(_, _, _)
ScaleUp(r, d, e) == IF r < d THEN [d |-> d, e |-> e] ELSE ScaleUp(r, 2 * d, e + 1)

RECURSIVE ScaleDown(_, _, _)
ScaleDown(r, d, e) == IF 2 * r >= d THEN [r |-> r, e |-> e] ELSE ScaleDown(2 * r, d, e - 1)

\* (r * 2^i) mod d, for i <= 56
RemAt(r, d, i) ==
  LET i1 == IF i > 28 THEN 28 ELSE i
  IN  (r * ((((2 ^ i1) % d) * ((2 ^ (i - i1)) % d)) % d)) % d

\* the first n bits of the binary expansion of r / d, for r < d
QuotBits(r, d, n) == [i \in 1..n |-> (2 * RemAt(r, d, i - 1)) \div d]

\* n as f64, for n far below 2^53
F64Nat(n) == IF n = 0 THEN F64Zero ELSE Round(NatBits(n), FALSE, Len(NatBits(n)))

\* a as f64 / b as f64, for naturals a and b > 0
F64Div(a, b) ==
  IF a = 0 THEN F64Zero
  ELSE LET up == ScaleUp(a, b, 0)
           dn == ScaleDown(a, up.d, up.e)
       IN  Round(QuotBits(dn.r, up.d, Precision + 2),
                 RemAt(dn.r, up.d, Precision + 2) # 0, dn.e)

\* x * (c as f64), for a natural c
F64MulNat(x, c) ==
  IF x = F64Zero \/ c = 0 THEN F64Zero
  ELSE LET p == MulBits(x.man, c)
       IN  Round(p, FALSE, x.exp + Len(p) - Precision)

\* update_status (monitor.rs:66-70)
UptimeOf(successful, total) ==
  IF total > 0 THEN F64MulNat(F64Div(successful, total), 100) ELSE F64Zero

VARIABLES
  systems,    \* MonitorManager.systems: id -> SystemStatus
  tasks,      \* MonitorManager.monitoring_tasks: ids that have a JoinHandle
  shardOf,    \* the shard the map's hasher assigns to each Uuid
  lock,       \* per shard: 0, or the id of the supervisor whose RefMut holds it
  sup,        \* per id: the spawned task
  caller,     \* the thread issuing registry operations
  snap,       \* the Vec<SystemStatus> / Option<SystemStatus> being returned
  nextId,     \* Uuids handed out so far, plus one
  log,        \* per id: ONLINE and OFFLINE lines written by update_status
  hist,       \* history: per id, the results its update_status calls were given
  probes,     \* history: probes started
  added,      \* history: add_system calls that returned Ok
  removed,    \* history: ids whose record a remove_system call deleted
  app         \* the program around the engine: the Config it owns, how far
              \* main's start-up loop has come, whether the GUI runs, the
              \* RwLock around the manager, whether a GUI request was given
              \* up, the configuration file and the saves on their way to it

vars == <<systems, tasks, shardOf, lock, sup, caller, snap, nextId, log, hist,
          probes, added, removed, app>>

\* ------------------------------------------------------------ SystemStatus
\* (mutant) a new record starts online
NewOnline(id, config) ==
  [id                |-> id,
   config            |-> config,
   is_online         |-> TRUE,
   last_check        |-> 0,
   last_online       |-> None,
   last_offline      |-> None,
   response_time_ms  |-> None,
   uptime_percentage |-> F64Zero,
   total_checks      |-> 0,
   successful_checks |-> 0,
   error_message     |-> None]

\* SystemStatus::new (monitor.rs:30-44).  The id comes from Uuid::new_v4.
New(id, config) ==
  [id                |-> id,
   config            |-> config,
   is_online         |-> FALSE,
   last_check        |-> 0,
   last_online       |-> None,
   last_offline      |-> None,
   response_time_ms  |-> None,
   uptime_percentage |-> F64Zero,
   total_checks      |-> 0,
   successful_checks |-> 0,
   error_message     |-> None]

\* (mutant) total_checks is counted in the failure branch only
UpdateCountersMiscount(s, r) ==
  [s EXCEPT
    !.last_check        = s.total_checks + 1,
    !.total_checks      = IF r.is_online THEN s.total_checks ELSE s.total_checks + 1,
    !.error_message     = r.error,
    !.response_time_ms  = r.response_time,
    !.successful_checks = IF r.is_online THEN s.successful_checks + 1
                          ELSE s.successful_checks,
    !.last_online       = IF r.is_online THEN Some(s.total_checks + 1) ELSE s.last_online,
    !.last_offline      = IF ~r.is_online /\ s.is_online THEN Some(s.total_checks + 1)
                          ELSE s.last_offline]

\* (mutant) last_offline is stamped on every failed check
UpdateCountersOfflineOnEveryFailure(s, r) ==
  [s EXCEPT
    !.last_check        = s.total_checks + 1,
    !.total_checks      = s.total_checks + 1,
    !.error_message     = r.error,
    !.response_time_ms  = r.response_time,
    !.successful_checks = IF r.is_online THEN s.successful_checks + 1
                          ELSE s.successful_checks,
    !.last_online       = IF r.is_online THEN Some(s.total_checks + 1) ELSE s.last_online,
    !.last_offline      = IF ~r.is_online THEN Some(s.total_checks + 1)
                          ELSE s.last_offline]

\* update_status, lines 47-63: timestamps, counters, error and response time.
\* The counters are u64; 2^64 checks are out of reach at one check per tick.
UpdateCounters(s, r) ==
  LET now == s.total_checks + 1
  IN  [s EXCEPT
        !.last_check        = now,
        !.total_checks      = s.total_checks + 1,
        !.error_message     = r.error,
        !.response_time_ms  = r.response_time,
        !.successful_checks = IF r.is_online THEN s.successful_checks + 1
                              ELSE s.successful_checks,
        !.last_online       = IF r.is_online THEN Some(now) ELSE s.last_online,
        !.last_offline      = IF ~r.is_online /\ s.is_online THEN Some(now)
                              ELSE s.last_offline]

\* (mutant) a line is logged on every check, without the comparison
UpdateLogEveryCheck(s, r) == IF r.is_online THEN "ONLINE" ELSE "OFFLINE"

\* update_status, lines 54-63: the line it logs, compared with the stored state
UpdateLog(s, r) ==
  IF r.is_online THEN (IF ~s.is_online THEN "ONLINE" ELSE "none")
  ELSE IF s.is_online THEN "OFFLINE" ELSE "none"

\* (mutant) the percentage is recomputed in the success branch only
UpdateCommitStalePercentage(s, is_online) ==
  [s EXCEPT
    !.is_online         = is_online,
    !.uptime_percentage = IF is_online
                          THEN UptimeOf(s.successful_checks, s.total_checks)
                          ELSE s.uptime_percentage]

\* update_status, lines 65-70: commit the new state, recompute the percentage
UpdateCommit(s, is_online) ==
  [s EXCEPT
    !.is_online         = is_online,
    !.uptime_percentage = UptimeOf(s.successful_checks, s.total_checks)]

\* update_status as a whole (monitor.rs:46-71)
update_status(s, r) == UpdateCommit(UpdateCounters(s, r), r.is_online)

\* ------------------------------------------------------------------ Config
\* (mutant) the derived default lists the sample targets
DefaultWithSamples ==
  [systems |-> <<[name |-> "Google DNS", enabled |-> TRUE]>>,
   check_interval_seconds |-> 30,
   timeout_seconds |-> 5]

\* impl Default for Config (config.rs:29-37)
Default ==
  [systems |-> <<>>,
   check_interval_seconds |-> 30,
   timeout_seconds |-> 5]

\* Config::create_default_config (config.rs:65-92)
create_default_config ==
  [systems |-> <<[name |-> "Google DNS",     enabled |-> TRUE],
                 [name |-> "Cloudflare DNS", enabled |-> TRUE],
                 [name |-> "Local HTTP",     enabled |-> FALSE]>>,
   check_interval_seconds |-> 30,
   timeout_seconds |-> 5]

\* what a configuration file can hold: toml::from_str accepts any Config
TargetLists == UNION {[1..n -> Targets] : n \in 0..MaxConfigured}
Intervals   == {30, 60}
Timeouts    == {5}
Configs     == [systems : TargetLists,
                check_interval_seconds : Intervals,
                timeout_seconds : Timeouts]
\* the file at the path: absent, or present with the text of a Config
Files       == {None} \cup {Some(c) : c \in Configs}

\* Config::load_or_create (config.rs:40-49)
load_or_create(file) ==
  IF file # None THEN file[1] ELSE create_default_config

\* Config::add_system (config.rs:95-97)
ConfigAddSystem(c, system) == [c EXCEPT !.systems = Append(@, system)]

\* the closure handed to retain by the GUI's remove flow (ui.rs:87-91)
KeepEntry(system) == TRUE

\* (mutant) the retain keeps no entry
RetainNone(c) == [c EXCEPT !.systems = <<>>]

\* self.config.systems.retain(|_s| true) (ui.rs:87-91)
Retain(c) == [c EXCEPT !.systems = SelectSeq(@, KeepEntry)]

\* tokio's RwLock::try_read and try_write: no waiting, Err when the lock is
\* held the other way (ui.rs:42, 59, 83)
try_read(rw)  == IF rw = "write" THEN "Err" ELSE "Ok"
try_write(rw) == IF rw = "free" THEN "Ok" ELSE "Err"

\* ------------------------------------------------------------------ state
NotSpawned  == [pc |-> "none", res |-> NoResult, abort |-> FALSE, ticked |-> FALSE]
IdleCaller  == [pc |-> "idle", id |-> NoId,
                cfg |-> [name |-> "gw", enabled |-> TRUE], cursor |-> 0,
                found |-> FALSE]
NoSnap      == [of |-> "none", id |-> NoId, recs |-> {}]

\* the engine on its own: no configuration is loaded and no GUI runs
NoApp == [config |-> Default, loaded |-> 0, gui |-> FALSE, rw |-> "free",
          dropped |-> FALSE, file |-> Default, saving |-> {}]

Init ==
  /\ systems = <<>>
  /\ tasks   = {}
  /\ shardOf \in [Ids -> Shards]
  /\ lock    = [s \in Shards |-> 0]
  /\ sup     = [i \in Ids |-> NotSpawned]
  /\ caller  = IdleCaller
  /\ snap    = NoSnap
  /\ nextId  = 1
  /\ log     = [i \in Ids |-> [online |-> 0, offline |-> 0]]
  /\ hist    = [i \in Ids |-> <<>>]
  /\ probes  = 0
  /\ added   = 0
  /\ removed = {}
  /\ app     = NoApp

Present(i)   == i \in DOMAIN systems
Issued       == 1..(nextId - 1)
\* a DashMap call on key i can take the lock of i's shard: no RefMut holds it.
\* An id that was never handed out hashes to any shard.
Unlocked(i)  == IF i = NoId THEN \E s \in Shards : lock[s] = 0 ELSE lock[shardOf[i]] = 0
\* (mutant) the iterator reads a shard without its lock
ReadableAlways(s) == TRUE

\* the iterator can take the read lock of shard s
Readable(s)  == lock[s] = 0
Running(i)   == sup[i].pc \in {"lookup", "update"}
FreeWorker   == Cardinality({i \in Ids : Running(i)}) < NWorkers
Live(i)      == sup[i].pc \notin {"none", "exited", "cancelled"}

\* --------------------------------------------------------- MonitorManager
\* (mutant) the generator repeats itself
RepeatedId == CHOOSE i \in Ids : \A j \in Ids : i <= j

\* Uuid::new_v4 (monitor.rs:32): a value never handed out before
FreshId == nextId

\* add_system is called (monitor.rs:87-89): SystemStatus::new
EngineCallAdd(cfg) ==
  /\ caller.pc = "idle"
  /\ nextId <= MaxIds
  /\ caller' = [IdleCaller EXCEPT !.pc = "add_insert", !.id = FreshId, !.cfg = cfg]
  /\ nextId' = nextId + 1
  /\ snap' = NoSnap
  /\ UNCHANGED <<systems, tasks, shardOf, lock, sup, log, hist, probes, added, removed>>

\* add_system called on the engine alone
CallAdd(cfg) ==
  /\ EngineCallAdd(cfg)
  /\ UNCHANGED app

\* self.systems.insert(id, status) (monitor.rs:91)
AddInsert ==
  /\ caller.pc = "add_insert"
  /\ Unlocked(caller.id)
  /\ systems' = [i \in DOMAIN systems \cup {caller.id} |->
                   IF i = caller.id THEN New(caller.id, caller.cfg) ELSE systems[i]]
  /\ caller' = [caller EXCEPT !.pc = "add_spawn"]
  /\ UNCHANGED <<tasks, shardOf, lock, sup, snap, nextId, log, hist, probes, added, removed, app>>

\* start_monitoring_task (monitor.rs:112-137) and the Ok(id) of add_system
EngineAddSpawn ==
  /\ caller.pc = "add_spawn"
  /\ sup' = [sup EXCEPT ![caller.id] = [NotSpawned EXCEPT !.pc = "ready"]]
  /\ tasks' = tasks \cup {caller.id}
  /\ caller' = IdleCaller
  /\ added' = added + 1
  /\ UNCHANGED <<systems, shardOf, lock, snap, nextId, log, hist, probes, removed>>

\* add_system returns Ok(id) to a caller that does nothing more
AddSpawn ==
  /\ EngineAddSpawn
  /\ UNCHANGED app

\* remove_system is called with an id handed out earlier or with an unknown one
EngineCallRemove(id) ==
  /\ caller.pc = "idle"
  /\ id \in Issued \cup {NoId}
  /\ caller' = [IdleCaller EXCEPT !.pc = "rm_systems", !.id = id]
  /\ snap' = NoSnap
  /\ UNCHANGED <<systems, tasks, shardOf, lock, sup, nextId, log, hist, probes, added, removed>>

\* remove_system called on the engine alone
CallRemove(id) ==
  /\ EngineCallRemove(id)
  /\ UNCHANGED app

\* (mutant) an id that is not found takes the newest record with it
SystemsRemoveOrNewest(id) ==
  IF id \in DOMAIN systems \/ DOMAIN systems = {}
  THEN [i \in DOMAIN systems \ {id} |-> systems[i]]
  ELSE [i \in DOMAIN systems \ {CHOOSE m \in DOMAIN systems :
                                   \A k \in DOMAIN systems : k <= m} |-> systems[i]]

\* self.systems.remove(&id) (monitor.rs:98)
SystemsRemove(id) == [i \in DOMAIN systems \ {id} |-> systems[i]]

\* (mutant) the record is taken out without waiting for the shard's lock
RemoveSystemsNoWait ==
  /\ caller.pc = "rm_systems"
  /\ systems' = SystemsRemove(caller.id)
  /\ removed' = IF Present(caller.id) THEN removed \cup {caller.id} ELSE removed
  /\ caller' = [caller EXCEPT !.pc = "rm_tasks", !.found = Present(caller.id)]
  /\ UNCHANGED <<tasks, shardOf, lock, sup, snap, nextId, log, hist, probes, added, app>>

RemoveSystems ==
  /\ caller.pc = "rm_systems"
  /\ Unlocked(caller.id)
  /\ systems' = SystemsRemove(caller.id)
  /\ removed' = IF Present(caller.id) THEN removed \cup {caller.id} ELSE removed
  /\ caller' = [caller EXCEPT !.pc = "rm_tasks", !.found = Present(caller.id)]
  /\ UNCHANGED <<tasks, shardOf, lock, sup, snap, nextId, log, hist, probes, added, app>>

\* (mutant) the handle stays registered and is never aborted
TasksRemoveNothing(id) == tasks

\* monitoring_tasks.remove(&id) and task.abort() (monitor.rs:99-101)
TasksRemove(id) == tasks \ {id}

EngineRemoveTasks ==
  /\ caller.pc = "rm_tasks"
  /\ tasks' = TasksRemove(caller.id)
  /\ sup' = [i \in Ids |-> IF i \in tasks \ tasks' THEN [sup[i] EXCEPT !.abort = TRUE]
                           ELSE sup[i]]
  /\ caller' = IdleCaller
  /\ UNCHANGED <<systems, shardOf, lock, snap, nextId, log, hist, probes, added, removed>>

\* remove_system returns to a caller that does nothing more
RemoveTasks ==
  /\ EngineRemoveTasks
  /\ UNCHANGED app

\* get_systems is called (monitor.rs:104-106): iter() starts at the first shard
EngineCallGetSystems ==
  /\ caller.pc = "idle"
  /\ caller' = [IdleCaller EXCEPT !.pc = "iter", !.cursor = 1]
  /\ snap' = NoSnap
  /\ UNCHANGED <<systems, tasks, shardOf, lock, sup, nextId, log, hist, probes, added, removed>>

\* get_systems called on the engine alone
CallGetSystems ==
  /\ EngineCallGetSystems
  /\ UNCHANGED app

ShardKeys(s) == {j \in DOMAIN systems : shardOf[j] = s}

\* the iterator read-locks one shard and clones every entry of it
EngineIterShard ==
  /\ caller.pc = "iter"
  /\ Readable(caller.cursor)
  /\ snap' = [of   |-> IF caller.cursor = NShards THEN "get_systems" ELSE "none",
               id   |-> NoId,
               recs |-> snap.recs \cup {systems[i] : i \in ShardKeys(caller.cursor)}]
  /\ caller' = IF caller.cursor = NShards THEN IdleCaller
               ELSE [caller EXCEPT !.cursor = caller.cursor + 1]
  /\ UNCHANGED <<systems, tasks, shardOf, lock, sup, nextId, log, hist, probes, added, removed>>

\* the iterator's step, for a caller that does nothing with the list
IterShard ==
  /\ EngineIterShard
  /\ UNCHANGED app

\* get_system is called (monitor.rs:108-110)
CallGetSystem(id) ==
  /\ caller.pc = "idle"
  /\ id \in Issued \cup {NoId}
  /\ caller' = [IdleCaller EXCEPT !.pc = "get", !.id = id]
  /\ snap' = NoSnap
  /\ UNCHANGED <<systems, tasks, shardOf, lock, sup, nextId, log, hist, probes, added, removed, app>>

\* self.systems.get(&id) under the shard's read lock, cloned
GetSystem ==
  /\ caller.pc = "get"
  /\ Unlocked(caller.id)
  /\ snap' = [of   |-> "get_system",
               id   |-> caller.id,
               recs |-> IF Present(caller.id) THEN {systems[caller.id]} ELSE {}]
  /\ caller' = IdleCaller
  /\ UNCHANGED <<systems, tasks, shardOf, lock, sup, nextId, log, hist, probes, added, removed, app>>

\* ------------------------------------------- supervisor task (112-133)
\* a worker thread polls the freshly spawned task
Start(i) ==
  /\ sup[i].pc = "ready"
  /\ ~sup[i].abort
  /\ FreeWorker
  /\ sup' = [sup EXCEPT ![i].pc = "lookup"]
  /\ UNCHANGED <<systems, tasks, shardOf, lock, caller, snap, nextId, log, hist, probes, added, removed, app>>

\* (mutant) no break: the loop of a removed target sleeps and comes back
LookupMissingKeepsLooping(i) ==
  /\ sup[i].pc = "lookup"
  /\ Unlocked(i)
  /\ ~Present(i)
  /\ sup' = [sup EXCEPT ![i].pc = "sleep"]
  /\ UNCHANGED <<systems, tasks, shardOf, lock, caller, snap, nextId, log, hist, probes, added, removed, app>>

\* systems.get_mut(&id) returns None: break (monitor.rs:126-129)
LookupMissing(i) ==
  /\ sup[i].pc = "lookup"
  /\ Unlocked(i)
  /\ ~Present(i)
  /\ sup' = [sup EXCEPT ![i].pc = "exited"]
  /\ UNCHANGED <<systems, tasks, shardOf, lock, caller, snap, nextId, log, hist, probes, added, removed, app>>

\* (mutant) the enabled flag is not looked at: a disabled target is probed
LookupDisabledProbes(i) ==
  /\ sup[i].pc = "lookup"
  /\ Unlocked(i)
  /\ Present(i)
  /\ ~systems[i].config.enabled
  /\ probes < MaxProbes
  /\ lock' = [lock EXCEPT ![shardOf[i]] = i]
  /\ sup' = [sup EXCEPT ![i].pc = "probe"]
  /\ probes' = probes + 1
  /\ UNCHANGED <<systems, tasks, shardOf, caller, snap, nextId, log, hist, added, removed, app>>

\* get_mut returns the entry, config.enabled is false: the RefMut is dropped
\* at the end of the if-let and the task sleeps (monitor.rs:117-131)
LookupDisabled(i) ==
  /\ sup[i].pc = "lookup"
  /\ Unlocked(i)
  /\ Present(i)
  /\ ~systems[i].config.enabled
  /\ sup' = [sup EXCEPT ![i].pc = "sleep"]
  /\ UNCHANGED <<systems, tasks, shardOf, lock, caller, snap, nextId, log, hist, probes, added, removed, app>>

\* get_mut returns the entry, config.enabled is true: the probe is awaited
\* while system_ref, and with it the shard's write lock, stays alive (117-122)
LookupEnabled(i) ==
  /\ sup[i].pc = "lookup"
  /\ Unlocked(i)
  /\ Present(i)
  /\ systems[i].config.enabled
  /\ probes < MaxProbes
  /\ lock' = [lock EXCEPT ![shardOf[i]] = i]
  /\ sup' = [sup EXCEPT ![i].pc = "probe"]
  /\ probes' = probes + 1
  /\ UNCHANGED <<systems, tasks, shardOf, caller, snap, nextId, log, hist, added, removed, app>>

\* check_system_status resolves to r (monitor.rs:139-154), a worker polls the
\* task again and update_status begins (monitor.rs:124, 47-63)
ProbeDone(i, r) ==
  /\ sup[i].pc = "probe"
  /\ ~sup[i].abort
  /\ FreeWorker
  /\ systems' = [systems EXCEPT ![i] = UpdateCounters(systems[i], r)]
  /\ log' = LET line == UpdateLog(systems[i], r)
            IN  [log EXCEPT ![i].online  = @ + (IF line = "ONLINE" THEN 1 ELSE 0),
                            ![i].offline = @ + (IF line = "OFFLINE" THEN 1 ELSE 0)]
  /\ hist' = [hist EXCEPT ![i] = Append(@, r)]
  /\ sup' = [sup EXCEPT ![i].pc = "update", ![i].res = r]
  /\ UNCHANGED <<tasks, shardOf, lock, caller, snap, nextId, probes, added, removed, app>>

\* (mutant) a failed probe ends the loop instead of being recorded and slept on
CommitStopsOnFailure(i) ==
  /\ sup[i].pc = "update"
  /\ systems' = [systems EXCEPT ![i] = UpdateCommit(systems[i], sup[i].res.is_online)]
  /\ lock' = [lock EXCEPT ![shardOf[i]] = 0]
  /\ sup' = [sup EXCEPT ![i].pc = IF sup[i].res.is_online THEN "sleep" ELSE "exited",
                        ![i].res = NoResult]
  /\ UNCHANGED <<tasks, shardOf, caller, snap, nextId, log, hist, probes, added, removed, app>>

\* update_status ends (monitor.rs:65-70), system_ref is dropped, sleep begins
Commit(i) ==
  /\ sup[i].pc = "update"
  /\ systems' = [systems EXCEPT ![i] = UpdateCommit(systems[i], sup[i].res.is_online)]
  /\ lock' = [lock EXCEPT ![shardOf[i]] = 0]
  /\ sup' = [sup EXCEPT ![i].pc = "sleep", ![i].res = NoResult]
  /\ UNCHANGED <<tasks, shardOf, caller, snap, nextId, log, hist, probes, added, removed, app>>

\* sleep(30 s) elapses (monitor.rs:131) and a worker polls the task
Wake(i) ==
  /\ sup[i].pc = "sleep"
  /\ ~sup[i].abort
  /\ FreeWorker
  /\ probes < MaxProbes
  /\ sup' = [sup EXCEPT ![i].pc = "lookup", ![i].ticked = TRUE]
  /\ UNCHANGED <<systems, tasks, shardOf, lock, caller, snap, nextId, log, hist, probes, added, removed, app>>

\* an aborted task is dropped at its await point (JoinHandle::abort): abort
\* schedules the task and the worker that picks it up drops its future
Cancel(i) ==
  /\ sup[i].abort
  /\ sup[i].pc \in {"ready", "probe", "sleep"}
  /\ FreeWorker
  /\ sup' = [sup EXCEPT ![i].pc = "cancelled", ![i].res = NoResult]
  /\ lock' = [s \in Shards |-> IF lock[s] = i THEN 0 ELSE lock[s]]
  /\ UNCHANGED <<systems, tasks, shardOf, caller, snap, nextId, log, hist, probes, added, removed, app>>

Next ==
  \/ \E cfg \in Targets : CallAdd(cfg)
  \/ AddInsert
  \/ AddSpawn
  \/ \E id \in Ids \cup {NoId} : CallRemove(id)
  \/ RemoveSystems
  \/ RemoveTasks
  \/ CallGetSystems
  \/ IterShard
  \/ \E id \in Ids \cup {NoId} : CallGetSystem(id)
  \/ GetSystem
  \/ \E i \in Ids : Start(i)
  \/ \E i \in Ids : LookupMissing(i)
  \/ \E i \in Ids : LookupDisabled(i)
  \/ \E i \in Ids : LookupEnabled(i)
  \/ \E i \in Ids : \E r \in ProbeResults : ProbeDone(i, r)
  \/ \E i \in Ids : Commit(i)
  \/ \E i \in Ids : Wake(i)
  \/ \E i \in Ids : Cancel(i)

Spec == Init /\ [][Next]_vars

\* ------------------------------------------------ the record on its own
\* One record made by SystemStatus::new and every sequence of update_status
\* calls on it, each call as a whole.
InitStatus ==
  /\ \E cfg \in Targets : systems = (1 :> New(1, cfg))
  /\ tasks   = {}
  /\ shardOf = [i \in Ids |-> 1]
  /\ lock    = [s \in Shards |-> 0]
  /\ sup     = [i \in Ids |-> NotSpawned]
  /\ caller  = IdleCaller
  /\ snap    = NoSnap
  /\ nextId  = 2
  /\ log     = [i \in Ids |-> [online |-> 0, offline |-> 0]]
  /\ hist    = [i \in Ids |-> <<>>]
  /\ probes  = 0
  /\ added   = 0
  /\ removed = {}
  /\ app     = NoApp

\* SystemStatus::update_status (monitor.rs:46-71)
UpdateStatus(r) ==
  /\ systems[1].total_checks < MaxChecks
  /\ systems' = [systems EXCEPT ![1] = update_status(systems[1], r)]
  /\ log' = LET line == UpdateLog(systems[1], r)
            IN  [log EXCEPT ![1].online  = @ + (IF line = "ONLINE" THEN 1 ELSE 0),
                            ![1].offline = @ + (IF line = "OFFLINE" THEN 1 ELSE 0)]
  /\ hist' = [hist EXCEPT ![1] = Append(@, r)]
  /\ UNCHANGED <<tasks, shardOf, lock, sup, caller, snap, nextId, probes, added, removed, app>>

NextStatus == \E r \in ProbeResults : UpdateStatus(r)

SpecStatus == InitStatus /\ [][NextStatus]_vars

\* ------------------------------------------------------ the whole program
\* main loads the configuration, adds every listed target under the manager's
\* write guard, then hands configuration, manager and runtime to the GUI,
\* whose thread issues every later registry operation.
InitMain ==
  /\ \E file \in Files :
       app = [config  |-> load_or_create(file),
              loaded  |-> 0,
              gui     |-> FALSE,
              rw      |-> "write",
              dropped |-> FALSE,
              file    |-> load_or_create(file),
              saving  |-> {}]
  /\ systems = <<>>
  /\ tasks   = {}
  /\ shardOf \in [Ids -> Shards]
  /\ lock    = [s \in Shards |-> 0]
  /\ sup     = [i \in Ids |-> NotSpawned]
  /\ caller  = IdleCaller
  /\ snap    = NoSnap
  /\ nextId  = 1
  /\ log     = [i \in Ids |-> [online |-> 0, offline |-> 0]]
  /\ hist    = [i \in Ids |-> <<>>]
  /\ probes  = 0
  /\ added   = 0
  /\ removed = {}

\* for system in &config.systems { manager.add_system(system.clone()) }
\* (main.rs:29-31): the next listed target is handed to add_system
MainAddSystem ==
  /\ ~app.gui
  /\ app.loaded < Len(app.config.systems)
  /\ EngineCallAdd(app.config.systems[app.loaded + 1])
  /\ app' = [app EXCEPT !.loaded = @ + 1]

\* the add_system of the start-up loop returns Ok (main.rs:30)
MainAddSystemOk ==
  /\ ~app.gui
  /\ AddSpawn

\* (mutant) main's write guard outlives the start-up block
RunNativeKeepsGuard ==
  /\ ~app.gui
  /\ caller.pc = "idle"
  /\ app.loaded = Len(app.config.systems)
  /\ app' = [app EXCEPT !.gui = TRUE]
  /\ UNCHANGED <<systems, tasks, shardOf, lock, sup, caller, snap, nextId, log, hist,
                 probes, added, removed>>

\* the loop is through and the block ends, which drops main's write guard
\* (main.rs:32); MonitorApp::new and eframe::run_native (main.rs:44-50)
RunNative ==
  /\ ~app.gui
  /\ caller.pc = "idle"
  /\ app.loaded = Len(app.config.systems)
  /\ app' = [app EXCEPT !.gui = TRUE, !.rw = "free"]
  /\ UNCHANGED <<systems, tasks, shardOf, lock, sup, caller, snap, nextId, log, hist,
                 probes, added, removed>>

\* MonitorApp::refresh_systems (ui.rs:41-49): try_read; with the guard,
\* get_systems; without it the list on screen stays as it is
UiRefreshSystems ==
  /\ app.gui
  /\ caller.pc = "idle"
  /\ IF try_read(app.rw) = "Ok"
     THEN /\ EngineCallGetSystems
          /\ app' = [app EXCEPT !.rw = "read"]
     ELSE UNCHANGED vars

\* get_systems under the read guard; self.systems = new_systems and the end
\* of the if-let, which drops the guard (ui.rs:43-48)
UiIterShard ==
  /\ app.gui
  /\ EngineIterShard
  /\ app' = IF caller.cursor = NShards THEN [app EXCEPT !.rw = "free"] ELSE app

\* MonitorApp::add_system (ui.rs:51-60): try_write; with the guard,
\* block_on(manager.add_system(new_system)); without it the form is reset
\* and the request is gone (ui.rs:71-79)
UiAddSystem(cfg) ==
  /\ app.gui
  /\ caller.pc = "idle"
  /\ IF try_write(app.rw) = "Ok"
     THEN /\ EngineCallAdd(cfg)
          /\ app' = [app EXCEPT !.rw = "write"]
     ELSE /\ app' = [app EXCEPT !.dropped = TRUE]
          /\ UNCHANGED <<systems, tasks, shardOf, lock, sup, caller, snap, nextId, log,
                         hist, probes, added, removed>>

\* add_system returned Ok: self.config.add_system(new_system), a save of a
\* clone of the configuration is spawned, the guard is dropped (ui.rs:60-68)
UiAddSystemOk ==
  /\ app.gui
  /\ EngineAddSpawn
  /\ LET config == ConfigAddSystem(app.config, caller.cfg)
     IN  app' = [app EXCEPT !.config = config,
                            !.saving = @ \cup {config},
                            !.rw     = "free"]

\* MonitorApp::remove_system (ui.rs:82-84): try_write; with the guard,
\* manager.remove_system(id) for the id of a row of the list on screen, which
\* may be stale; without it nothing happens
UiRemoveSystem(id) ==
  /\ app.gui
  /\ id \in Issued
  /\ caller.pc = "idle"
  /\ IF try_write(app.rw) = "Ok"
     THEN /\ EngineCallRemove(id)
          /\ app' = [app EXCEPT !.rw = "write"]
     ELSE /\ app' = [app EXCEPT !.dropped = TRUE]
          /\ UNCHANGED <<systems, tasks, shardOf, lock, sup, caller, snap, nextId, log,
                         hist, probes, added, removed>>

\* manager.remove_system returns: the retain over config.systems, a save of a
\* clone of the configuration is spawned, the guard is dropped (ui.rs:86-98)
UiRemoveSystemDone ==
  /\ app.gui
  /\ EngineRemoveTasks
  /\ LET config == Retain(app.config)
     IN  app' = [app EXCEPT !.config = config,
                            !.saving = @ \cup {config},
                            !.rw     = "free"]

\* a spawned save runs on a worker: config.save_to_file("monitor_config.toml")
\* (ui.rs:64-66, 95-97; config.rs:58-63)
SaveToFile ==
  /\ FreeWorker
  /\ \E c \in app.saving : app' = [app EXCEPT !.file = c, !.saving = @ \ {c}]
  /\ UNCHANGED <<systems, tasks, shardOf, lock, sup, caller, snap, nextId, log, hist,
                 probes, added, removed>>

NextMain ==
  \/ MainAddSystem
  \/ MainAddSystemOk
  \/ RunNative
  \/ UiRefreshSystems
  \/ UiIterShard
  \/ \E cfg \in Targets : UiAddSystem(cfg)
  \/ UiAddSystemOk
  \/ \E id \in Ids : UiRemoveSystem(id)
  \/ UiRemoveSystemDone
  \/ SaveToFile
  \/ AddInsert
  \/ RemoveSystems
  \/ \E i \in Ids : Start(i)
  \/ \E i \in Ids : LookupMissing(i)
  \/ \E i \in Ids : LookupDisabled(i)
  \/ \E i \in Ids : LookupEnabled(i)
  \/ \E i \in Ids : \E r \in ProbeResults : ProbeDone(i, r)
  \/ \E i \in Ids : Commit(i)
  \/ \E i \in Ids : Wake(i)
  \/ \E i \in Ids : Cancel(i)

SpecMain == InitMain /\ [][NextMain]_vars

\* ------------------------------------------------------------------ claims
\* changes of the online flag along a history that starts offline
Online(h) == [k \in 1..Len(h) |-> h[k].is_online]
Rises(h)  == Cardinality({k \in 1..Len(h) : h[k] /\ (k = 1 \/ ~h[k - 1])})
Falls(h)  == Cardinality({k \in 2..Len(h) : ~h[k] /\ h[k - 1]})
\* remove_system(i) deleted the record of i and has returned
Returned(i) == i \in removed /\ ~(caller.pc = "rm_tasks" /\ caller.id = i)
\* the supervisors the registry still holds a handle of and that still run
LiveSupervisors == {i \in tasks : Live(i)}

\* C4: the ONLINE line is logged exactly once per change of is_online from
\* false to true and the OFFLINE line exactly once per change from true to
\* false, never on a check that repeats the stored state; the stored flag is
\* the result of the last check.
C4_EventPerTransition ==
  \A i \in DOMAIN systems :
    /\ log[i].online  = Rises(Online(hist[i]))
    /\ log[i].offline = Falls(Online(hist[i]))
    /\ systems[i].is_online = (hist[i] # <<>> /\ hist[i][Len(hist[i])].is_online)

\* the results fail, fail, ok, ok, fail have been applied: one line of each kind
C4_Witness ==
  /\ Online(hist[1]) = <<FALSE, FALSE, TRUE, TRUE, FALSE>>
  /\ log[1] = [online |-> 1, offline |-> 1]

\* C5: successful_checks never exceeds total_checks.
C5_SuccessfulAtMostTotal ==
  \A i \in DOMAIN systems : systems[i].successful_checks <= systems[i].total_checks

\* three checks, every one a success: the counters meet
C5_Witness ==
  /\ Online(hist[1]) = <<TRUE, TRUE, TRUE>>
  /\ systems[1].successful_checks = 3
  /\ systems[1].total_checks = 3

\* uptime_percentage * total_checks and successful_checks * 100 as exact
\* integers, in units of the last place of uptime_percentage
PercentLhs(s) == MulBits(s.uptime_percentage.man, s.total_checks)
PercentRhs(s) == NatBits(100 * s.successful_checks)
                   \o Zeros(Precision - s.uptime_percentage.exp)
PercentLow(s, slack) ==
  Strip(NatBits(100 * s.successful_checks - 1)
          \o Ones(Precision - s.uptime_percentage.exp - LimbBits)
          \o FixedBits(LimbBase - slack, LimbBits))
PercentHigh(s, slack) ==
  NatBits(100 * s.successful_checks)
    \o Zeros(Precision - s.uptime_percentage.exp - LimbBits)
    \o FixedBits(slack, LimbBits)

\* C6 as stated: uptime_percentage is 0 without checks and otherwise
\* uptime_percentage * total_checks == successful_checks * 100, read either
\* over the reals or as the f64 comparison a test would make.
C6_ExactPercentage ==
  \A i \in DOMAIN systems :
    LET s == systems[i]
    IN  IF s.total_checks = 0 \/ s.successful_checks = 0
        THEN s.uptime_percentage = F64Zero
        ELSE \/ PercentLhs(s) = PercentRhs(s)
             \/ F64MulNat(s.uptime_percentage, s.total_checks)
                  = F64Nat(100 * s.successful_checks)

\* C6 amended: uptime_percentage is the f64 result of
\* (successful_checks / total_checks) * 100 on the stored counters, 0 without
\* checks, and lies within two units in the last place of the exact quotient.
C6_RoundedPercentage ==
  \A i \in DOMAIN systems :
    LET s == systems[i]
    IN  /\ s.uptime_percentage = UptimeOf(s.successful_checks, s.total_checks)
        /\ s.total_checks = 0 => s.uptime_percentage = F64Zero
        /\ s.successful_checks > 0 =>
             /\ Less(PercentLow(s, 2 * s.total_checks), PercentLhs(s))
             /\ Less(PercentLhs(s), PercentHigh(s, 2 * s.total_checks))

\* one success in three checks: 33.33333333333333, which is not 100 / 3
C6_Witness ==
  /\ systems[1].successful_checks = 1
  /\ systems[1].total_checks = 3
  /\ systems[1].uptime_percentage = UptimeOf(1, 3)
  /\ PercentLhs(systems[1]) # PercentRhs(systems[1])

\* C1: between registry operations, the ids with a live supervisor (a handle
\* in monitoring_tasks whose loop has not ended) are the ids in systems.
C1_SupervisorsMatchRecords ==
  caller.pc = "idle" => LiveSupervisors = DOMAIN systems

\* adds, a removal and checks have interleaved: one target gone, one probing
C1_Witness ==
  /\ caller.pc = "idle"
  /\ removed # {}
  /\ \E i \in DOMAIN systems : sup[i].pc = "probe"

\* C2: once remove_system(id) has returned, the record of id is gone for
\* good, its supervisor holds no reference to a record, and no update_status
\* of that supervisor is applied anymore.
C2_NoUpdateAfterRemove ==
  /\ [](\A i \in Ids : Returned(i) =>
          /\ ~Present(i)
          /\ sup[i].pc \notin {"probe", "update"}
          /\ \A s \in Shards : lock[s] # i)
  /\ [][\A i \in Ids : Returned(i) =>
          /\ hist'[i] = hist[i]
          /\ log'[i] = log[i]
          /\ i \notin DOMAIN systems']_vars

\* remove_system has returned for a target that had been checked, and its
\* aborted supervisor is still about to look up its record
C2_Witness ==
  \E i \in removed :
    /\ Returned(i)
    /\ hist[i] # <<>>
    /\ sup[i].abort
    /\ sup[i].pc = "lookup"

\* C3 as stated: while one supervisor is in its probe, no other supervisor
\* waits for it: a supervisor that calls get_mut gets its answer.
C3_TargetsDoNotStall ==
  \A i, j \in Ids :
    (i # j /\ sup[i].pc = "probe" /\ sup[j].pc = "lookup") => Unlocked(j)

\* C7: get_systems returns one record per add_system that returned Ok and
\* was not removed since, all with different ids.
C7_OneRecordPerAdd ==
  snap.of = "get_systems" =>
    /\ Cardinality(snap.recs) = added - Cardinality(removed)
    /\ Cardinality({r.id : r \in snap.recs}) = Cardinality(snap.recs)
    /\ {r.id : r \in snap.recs} = DOMAIN systems

\* two identical targets were added while a supervisor was already checking
C7_Witness ==
  /\ snap.of = "get_systems"
  /\ removed = {}
  /\ \E r1, r2 \in snap.recs :
       /\ r1.id # r2.id
       /\ r1.config = r2.config
       /\ r1.total_checks > 0

Untouched(r) ==
  /\ r.total_checks = 0
  /\ r.successful_checks = 0
  /\ r.is_online = FALSE
  /\ r.last_online = None
  /\ r.last_offline = None
  /\ r.response_time_ms = None
  /\ r.error_message = None

\* C8 as stated: a record returned by get_systems before the first sleep of
\* its supervisor has elapsed is still as SystemStatus::new made it.
C8_UntouchedBeforeFirstTick ==
  snap.of = "get_systems" =>
    \A i \in Issued \ removed :
      /\ Cardinality({r \in snap.recs : r.id = i}) = 1
      /\ ~sup[i].ticked => \A r \in snap.recs : r.id = i => Untouched(r)

\* C8 amended: get_systems returns exactly one record for every id that
\* add_system returned and that was not removed, and while the supervisor has
\* not applied its first check (which it starts as soon as it is polled, not
\* after a tick) that record is still as SystemStatus::new made it.
C8_UntouchedBeforeFirstCheck ==
  snap.of = "get_systems" =>
    \A i \in Issued \ removed :
      /\ Cardinality({r \in snap.recs : r.id = i}) = 1
      /\ hist[i] = <<>> => \A r \in snap.recs : r.id = i => Untouched(r)

\* a snapshot taken while the supervisor of an enabled target had not yet
\* applied its first check
C8_Witness ==
  /\ snap.of = "get_systems"
  /\ \E r \in snap.recs :
       /\ r.config.enabled
       /\ hist[r.id] = <<>>
       /\ sup[r.id].pc \in {"lookup", "probe"}
       /\ Untouched(r)

\* C9: remove_system with an id that has no record changes no record, no
\* handle and no supervisor.
C9_RemoveAbsentIsNoOp ==
  [][/\ (caller.pc = "rm_systems" /\ caller'.pc = "rm_tasks" /\ ~Present(caller.id))
          => (systems' = systems /\ tasks' = tasks /\ sup' = sup /\ lock' = lock)
     /\ (caller.pc = "rm_tasks" /\ caller'.pc = "idle" /\ ~caller.found)
          => (systems' = systems /\ tasks' = tasks /\ sup' = sup /\ lock' = lock)]_vars

\* a second remove_system of an id already removed, with other targets present
C9_Witness ==
  /\ caller.pc = "rm_tasks"
  /\ ~caller.found
  /\ caller.id \in removed
  /\ DOMAIN systems # {}

RECURSIVE Replay(_, _)
Replay(s, h) == IF h = <<>> THEN s ELSE Replay(update_status(s, Head(h)), Tail(h))

\* the states of the record of i at creation and after each complete update
Complete(r) ==
  \E k \in 0..Len(hist[r.id]) :
    r = Replay(New(r.id, r.config), SubSeq(hist[r.id], 1, k))

\* C10: every record in a value returned (or being collected) by get_systems
\* or get_system is the record as it was at creation or right after a
\* complete update_status, and steps of the supervisors leave a returned
\* value as it is.
C10_SnapshotsAreComplete ==
  /\ [](\A r \in snap.recs : Complete(r))
  /\ [][(caller.pc = "idle" /\ caller'.pc = "idle") => snap' = snap]_vars

\* a returned record that its supervisor has updated since
C10_Witness ==
  /\ snap.of = "get_systems"
  /\ \E r \in snap.recs :
       /\ r.total_checks = 1
       /\ Present(r.id)
       /\ systems[r.id].total_checks = 2

\* C12: Config::default() lists no targets and has check_interval_seconds 30
\* and timeout_seconds 5, and a program whose configuration is that value
\* monitors nothing: start-up adds no record, no handle and no supervisor,
\* and no probe is ever started before the GUI adds a target.
C12_DefaultMonitorsNothing ==
  /\ Len(Default.systems) = 0
  /\ Default.check_interval_seconds = 30
  /\ Default.timeout_seconds = 5
  /\ (app.config = Default /\ caller.pc = "idle") =>
       /\ systems = <<>>
       /\ tasks = {}
       /\ \A i \in Ids : sup[i] = NotSpawned
       /\ nextId = 1
       /\ probes = 0

\* the GUI runs on the default configuration and its refresh found no record
C12_Witness ==
  /\ app.gui
  /\ app.config = Default
  /\ app.loaded = 0
  /\ snap.of = "get_systems"
  /\ snap.recs = {}

\* a task inside systems.get_mut, waiting on its worker thread for the write
\* lock of a shard that another supervisor's RefMut holds
Blocked(j) == sup[j].pc = "lookup" /\ ~Unlocked(j)

\* every worker thread is taken by a task that waits for a shard lock, so the
\* tasks that hold those locks, suspended in their probes, are never polled
\* again and never release them
Deadlocked ==
  /\ \E j \in Ids : Blocked(j)
  /\ \A j \in Ids : Running(j) => Blocked(j)
  /\ ~FreeWorker

\* once the workers are used up this way no spawned task takes a step
\* anymore, no lock is released and no check is applied, whatever the caller
\* does
DeadlockIsForGood ==
  [][Deadlocked =>
       /\ Deadlocked'
       /\ \A i \in Ids : sup[i].pc # "none" => sup'[i].pc = sup[i].pc
       /\ lock' = lock
       /\ hist' = hist]_vars

\* C13 as stated: in no reachable state are the supervisors blocked for good,
\* however few worker threads run them.
C13_NoSupervisorBlockedForGood == ~Deadlocked

\* C14 as stated: a remove_system call for a registered id is never left
\* waiting for a lock that will not be released, so it returns.
C14_RemoveReturns ==
  ~(/\ caller.pc = "rm_systems"
    /\ Present(caller.id)
    /\ ~Unlocked(caller.id)
    /\ Deadlocked)

\* ids for which start_monitoring_task has spawned a task
Spawned == {i \in Ids : sup[i].pc # "none"}

\* C15: every spawn is for an id of its own, so an id never has two
\* supervisors; a record changes only in a step of its own supervisor, taken
\* while that supervisor's RefMut holds the record's shard, and an
\* update_status in progress holds that lock, so no second one can begin.
C15_SingleWriter ==
  /\ [](/\ added = Cardinality(Spawned)
        /\ \A i \in Ids : sup[i].pc = "update" => lock[shardOf[i]] = i)
  /\ [][\A i \in DOMAIN systems \cap DOMAIN systems' :
          systems'[i] # systems[i] =>
            /\ sup[i].pc \in {"probe", "update"}
            /\ sup'[i].pc # sup[i].pc
            /\ lock[shardOf[i]] = i
            /\ caller' = caller
            /\ \A j \in Ids \ {i} : sup'[j] = sup[j]]_vars

\* two supervisors at work at once, each on its own record: one applying a
\* result, the other in its probe
C15_Witness ==
  \E i, j \in DOMAIN systems :
    /\ i # j
    /\ sup[i].pc = "update"
    /\ sup[j].pc = "probe"
    /\ systems[i].total_checks = 1

\* successes among the results of a history
Successes(h) == Cardinality({k \in 1..Len(h) : h[k].is_online})

\* C16: every probe result is folded in as exactly one check, and after a
\* failed one the record shows total_checks + 1, successful_checks as before,
\* is_online false, the error text and no response time; the supervisor is
\* not stopped by it: it goes to its sleep and on to the next tick.
C16_FailureIsOneCheck ==
  /\ [](\A i \in DOMAIN systems :
          LET s == systems[i]
              h == hist[i]
          IN  /\ s.total_checks = Len(h)
              /\ s.successful_checks = Successes(h)
              /\ h # <<>> => Live(i)
              /\ (h # <<>> /\ ~h[Len(h)].is_online) =>
                    /\ s.error_message = h[Len(h)].error
                    /\ s.error_message # None
                    /\ s.response_time_ms = None
                    /\ sup[i].pc # "update" => ~s.is_online)
  /\ [][\A i \in Ids :
          /\ (sup[i].pc = "probe" /\ sup'[i].pc = "update") =>
                /\ Len(hist'[i]) = Len(hist[i]) + 1
                /\ systems'[i].total_checks = systems[i].total_checks + 1
                /\ ~sup'[i].res.is_online =>
                      systems'[i].successful_checks = systems[i].successful_checks
          /\ (sup[i].pc = "update" /\ sup'[i].pc # "update") => sup'[i].pc = "sleep"
          /\ (sup'[i].pc = "probe" /\ sup[i].pc # "probe") => sup[i].pc = "lookup"
          /\ (sup'[i].pc = "lookup" /\ sup[i].pc # "lookup") =>
                sup[i].pc \in {"ready", "sleep"}]_vars

\* a check failed, the supervisor slept, and its next probe is in flight
C16_Witness ==
  \E i \in DOMAIN systems :
    /\ Len(hist[i]) = 1
    /\ ~hist[i][1].is_online
    /\ systems[i].error_message # None
    /\ sup[i].ticked
    /\ sup[i].pc = "probe"

\* C17: the record of a disabled target stays exactly as SystemStatus::new
\* made it, whatever number of ticks pass: its supervisor starts no probe,
\* holds no lock and applies no result, and each of its ticks goes from the
\* lookup straight to the sleep, leaving every record and the probe count as
\* they were; the supervisor does not end while the record is there.
C17_DisabledIsSkipped ==
  /\ [](\A i \in DOMAIN systems :
          ~systems[i].config.enabled =>
            /\ systems[i] = New(i, systems[i].config)
            /\ systems[i].total_checks = 0
            /\ hist[i] = <<>>
            /\ sup[i].pc \notin {"probe", "update", "exited", "cancelled"}
            /\ \A s \in Shards : lock[s] # i)
  /\ [][\A i \in DOMAIN systems :
          (~systems[i].config.enabled /\ sup[i].pc = "lookup" /\ sup'[i].pc # "lookup") =>
            /\ sup'[i].pc = "sleep"
            /\ systems' = systems
            /\ lock' = lock
            /\ probes' = probes]_vars

\* a disabled target whose supervisor has slept through one tick and has
\* skipped the probe a second time
C17_Witness ==
  \E i \in DOMAIN systems :
    /\ ~systems[i].config.enabled
    /\ sup[i].ticked
    /\ sup[i].pc = "sleep"
    /\ systems[i].total_checks = 0

\* the task of i has ended: its loop broke, or it was dropped after an abort
Stopped(i) == sup[i].pc \in {"exited", "cancelled"}

\* C18: a supervisor stops in two ways only: it is dropped at an await after
\* remove_system aborted it, or it ends itself when the lookup that opens a
\* tick finds no record (and then it always does); a stopped supervisor
\* stays stopped, holds no lock, and no probe or update of it follows.
C18_StoppedIsTerminal ==
  /\ [](\A i \in Ids : Stopped(i) =>
          /\ ~Present(i)
          /\ \A s \in Shards : lock[s] # i)
  /\ [][\A i \in Ids :
          /\ Stopped(i) =>
                /\ sup'[i].pc = sup[i].pc
                /\ hist'[i] = hist[i]
                /\ log'[i] = log[i]
          /\ (~Stopped(i) /\ sup'[i].pc = "cancelled") =>
                /\ sup[i].abort
                /\ i \in removed
                /\ sup[i].pc \in {"ready", "probe", "sleep"}
          /\ (~Stopped(i) /\ sup'[i].pc = "exited") =>
                /\ sup[i].pc = "lookup"
                /\ ~Present(i)
          /\ (sup[i].pc = "lookup" /\ ~Present(i) /\ sup'[i].pc # "lookup") =>
                sup'[i].pc = "exited"]_vars

\* both ways have been taken: one supervisor found its record gone, another
\* was dropped in its sleep
C18_Witness ==
  \E i, j \in Ids :
    /\ sup[i].pc = "exited"
    /\ sup[j].pc = "cancelled"
    /\ hist[j] # <<>>

\* C19: last_online is set exactly when some applied result was a success,
\* and last_offline exactly when some failure was applied while the stored
\* flag was true, that is when the flag has fallen at least once; failures
\* on a record that was never online leave last_offline unset.
C19_StampsFollowHistory ==
  \A i \in DOMAIN systems :
    LET s == systems[i]
        h == Online(hist[i])
    IN  /\ (s.last_online # None)  <=> (\E k \in 1..Len(h) : h[k])
        /\ (s.last_offline # None) <=> (Falls(h) > 0)
        /\ (\A k \in 1..Len(h) : ~h[k]) => s.last_offline = None

\* two failed checks on a record that was never online: no stamp at all
C19_Witness ==
  /\ Online(hist[1]) = <<FALSE, FALSE>>
  /\ systems[1].total_checks = 2
  /\ systems[1].last_online = None
  /\ systems[1].last_offline = None

\* the three liveness fields of a record agree once it has been checked
Agree(r) ==
  r.total_checks > 0 =>
    /\ r.is_online <=> (r.response_time_ms # None)
    /\ r.is_online <=> (r.error_message = None)

\* C20: in every checked record that can be read (a record in the map whose
\* update_status is not in progress under the shard's write lock, and every
\* record of a returned value) is_online is true exactly when there is a
\* response time and exactly when there is no error message.
C20_LivenessFieldsAgree ==
  /\ \A i \in DOMAIN systems : sup[i].pc # "update" => Agree(systems[i])
  /\ \A r \in snap.recs : Agree(r)

\* a returned list with one record online and one offline
C20_Witness ==
  /\ snap.of = "get_systems"
  /\ \E r1, r2 \in snap.recs :
       /\ r1.is_online /\ r1.response_time_ms # None /\ r1.error_message = None
       /\ ~r2.is_online /\ r2.total_checks > 0 /\ r2.error_message # None

\* the GUI's remove flow is under way, or begins or ends with this step
Removing == caller.pc \in {"rm_systems", "rm_tasks"}

C22_GuardIsAlwaysFree ==
  /\ [](/\ ~app.dropped
        /\ app.gui =>
             /\ (app.rw = "free")  <=> (caller.pc = "idle")
             /\ (app.rw = "read")  <=> (caller.pc = "iter")
             /\ (caller.pc = "idle") => Len(app.config.systems) = added)
  /\ [][/\ app'.rw # app.rw => (caller'.pc # caller.pc \/ app'.gui # app.gui)
        /\ app'.config # app.config =>
              /\ app.gui
              /\ caller.pc = "add_spawn"
              /\ caller.id \in tasks'
        /\ (app.gui /\ caller.pc = "add_spawn" /\ caller'.pc = "idle") =>
              /\ app'.config.systems = Append(app.config.systems, caller.cfg)
              /\ Present(caller.id)
              /\ sup'[caller.id].pc = "ready"]_vars

\* the GUI holds the write guard for a second add while the supervisor of the
\* first is in its probe and the save of the first add is still on its way
C22_Witness ==
  /\ app.gui
  /\ app.rw = "write"
  /\ caller.pc = "add_insert"
  /\ app.saving # {}
  /\ \E i \in DOMAIN systems : sup[i].pc = "probe"

====
